---- MODULE Spec2Model ----
(***************************************************************************)
(* country-counter: an edge worker that counts visits per (country, city)  *)
(* in a remote libSQL store and renders the tables back.                   *)
(*                                                                         *)
(* The remote store is the only shared state.  Every `.await` on a store   *)
(* call is a suspension point, so every store call of a request is one     *)
(* action; the synchronous code between two awaits belongs to the action   *)
(* of the await that precedes it.  The store executes one SQL statement    *)
(* atomically; a statement that reports an error has no effect.            *)
(***************************************************************************)
EXTENDS Integers, Sequences, FiniteSets, TLC

\* number of concurrent HTTP requests
MaxReqs == 2
\* number of serve calls the sequential driver may make
MaxVisits == 5
\* number of rows of a result set handed to a renderer
MaxRows == 2

Reqs == 1..MaxReqs

\* request geolocation facts (cf.country/cf.city, cf.coordinates, cf.colo)
Keys == {<<"PL", "Warsaw">>, <<"FI", "Helsinki">>}
Coords == {<<52, 20>>, <<60, 24>>}
\* the visits requests are drawn from: the two of the test, one that repeats
\* the first under another airport label, one with the first key elsewhere
Visits ==
    {[airport |-> "waw", country |-> "PL", city |-> "Warsaw", coord |-> <<52, 20>>],
     [airport |-> "hel", country |-> "FI", city |-> "Helsinki", coord |-> <<60, 24>>],
     [airport |-> "hel", country |-> "PL", city |-> "Warsaw", coord |-> <<52, 20>>],
     [airport |-> "waw", country |-> "PL", city |-> "Warsaw", coord |-> <<60, 24>>]}
\* the email query parameter of /add-user; NoEmail: parameter absent
NoEmail == "<absent>"
Emails == {"a@example.org", NoEmail}

Secrets == {"LIBSQL_CLIENT_URL", "LIBSQL_CLIENT_TOKEN"}

VARIABLES
    env,            \* bindings the deployment provides (secrets, vars)
    tables,         \* names of the tables that exist in the store
    counter,        \* rows of table counter
    coordinates,    \* rows of table coordinates
    users,          \* rows of table example_users, in insertion order
    req,            \* per request: inputs, position, store calls, outcome
    visits,         \* sequential driver: successful serve calls per key
    visitedCoords,  \* sequential driver: coordinates of successful serve calls
    rs,             \* renderer on its own: the result set it is handed
    rendered        \* renderer on its own: what it returned

vars == <<env, tables, counter, coordinates, users, req, visits, visitedCoords,
          rs, rendered>>

----------------------------------------------------------------------------
\* Responses

NoResp == [status |-> 0, kind |-> "-", body |-> <<>>]
\* Response::error(msg, status)
ResponseError(msg, status) == [status |-> status, kind |-> "error", body |-> msg]
\* Response::ok(text)
ResponseOk(text) == [status |-> 200, kind |-> "text", body |-> text]
\* Response::from_html(html)
ResponseHtml(html) == [status |-> 200, kind |-> "html", body |-> html]
\* Response::from_json(json)
ResponseJson(json) == [status |-> 200, kind |-> "json", body |-> json]
\* a handler that returns Err or panics: the runtime answers, not the handler
ResponseException == [status |-> 500, kind |-> "exception", body |-> <<>>]

IdleReq ==
    [route |-> "-", airport |-> "-", country |-> "-", city |-> "-",
     coord |-> <<0, 0>>, email |-> NoEmail, pc |-> "idle", conn |-> "none",
     calls |-> <<>>,
     result |-> "none", scoreboard |-> {}, canvas |-> {}, resp |-> NoResp]

----------------------------------------------------------------------------
\* The store: SQL statements as the code issues them

\* INSERT [OR <conflict>] INTO t VALUES row, under primary key `key`:
\* IGNORE skips a row whose key exists, REPLACE deletes the old row first,
\* ABORT (plain INSERT) fails with a uniqueness fault.
Insert(rows, row, key, conflict) ==
    LET clash == {old \in rows : \A c \in key : old[c] = row[c]}
    IN  IF clash = {} THEN [rows |-> rows \cup {row}, err |-> "none"]
        ELSE IF conflict = "IGNORE" THEN [rows |-> rows, err |-> "none"]
        ELSE IF conflict = "REPLACE"
             THEN [rows |-> (rows \ clash) \cup {row}, err |-> "none"]
        ELSE [rows |-> rows, err |-> "UNIQUE constraint failed"]

\* CREATE TABLE IF NOT EXISTS counter ...; CREATE TABLE IF NOT EXISTS coordinates ...
CreateTables(t) == t \cup {"counter", "coordinates"}

CounterKey == {"country", "city"}
CoordinatesKey == {"lat", "long"}

\* conflict clauses of the two seeding inserts
CounterConflictAbort == "ABORT"
CounterConflictReplace == "REPLACE"
CounterConflict == "IGNORE"
CoordinatesConflictAbort == "ABORT"
CoordinatesConflictReplace == "REPLACE"
CoordinatesConflict == "IGNORE"

\* INSERT OR IGNORE INTO counter VALUES (?, ?, 0)
SeedCounter(rows, country, city) ==
    Insert(rows, [country |-> country, city |-> city, value |-> 0],
           CounterKey, CounterConflict)

\* UPDATE counter SET value = value + 1 WHERE country = ? AND city = ?
IncrementCounterNone(rows, country, city) == rows
IncrementCounterTwice(rows, country, city) ==
    {IF row.country = country /\ row.city = city
        THEN [row EXCEPT !.value = @ + 2] ELSE row : row \in rows}
IncrementCounterAll(rows, country, city) ==
    {[row EXCEPT !.value = @ + 1] : row \in rows}
IncrementCounter(rows, country, city) ==
    {IF row.country = country /\ row.city = city
        THEN [row EXCEPT !.value = @ + 1] ELSE row : row \in rows}

\* INSERT OR IGNORE INTO coordinates VALUES (?, ?, ?)
SeedCoordinates(rows, lat, long, airport) ==
    Insert(rows, [lat |-> lat, long |-> long, airport |-> airport],
           CoordinatesKey, CoordinatesConflict)

\* insert into example_users values (?)
InsertUser(rows, email) == Append(rows, email)

\* a statement on a table that does not exist
NoTable(t, name) == IF name \in t THEN "none" ELSE "no such table"

----------------------------------------------------------------------------
\* Value model: libsql::Value and its two renderings

Null == [kind |-> "Null"]
Integer(v) == [kind |-> "Integer", v |-> v]
\* a real is written as its integer part and its fraction digits
Real(int, frac) == [kind |-> "Real", int |-> int, frac |-> frac]
Text(v) == [kind |-> "Text", text |-> v]
Blob(v) == [kind |-> "Blob", bytes |-> v]

\* f64::to_string: no fraction point for an integral value
RealToString(c) ==
    IF c.frac = "" THEN ToString(c.int) ELSE ToString(c.int) \o "." \o c.frac

Base64Alphabet ==
    <<"A", "B", "C", "D", "E", "F", "G", "H", "I", "J", "K", "L", "M",
      "N", "O", "P", "Q", "R", "S", "T", "U", "V", "W", "X", "Y", "Z",
      "a", "b", "c", "d", "e", "f", "g", "h", "i", "j", "k", "l", "m",
      "n", "o", "p", "q", "r", "s", "t", "u", "v", "w", "x", "y", "z",
      "0", "1", "2", "3", "4", "5", "6", "7", "8", "9", "+", "/">>
B64(i) == Base64Alphabet[i + 1]

\* BASE64_STANDARD_NO_PAD.encode: three bytes give four characters, a rest
\* of one or two bytes gives two or three, and no padding is added
RECURSIVE Base64NoPad(_)
Base64NoPad(b) ==
    IF Len(b) = 0 THEN ""
    ELSE IF Len(b) = 1
        THEN B64(b[1] \div 4) \o B64((b[1] % 4) * 16)
    ELSE IF Len(b) = 2
        THEN B64(b[1] \div 4) \o B64((b[1] % 4) * 16 + b[2] \div 16)
                \o B64((b[2] % 16) * 4)
    ELSE B64(b[1] \div 4) \o B64((b[1] % 4) * 16 + b[2] \div 16)
            \o B64((b[2] % 16) * 4 + b[3] \div 64) \o B64(b[3] % 64)
            \o Base64NoPad(SubSeq(b, 4, Len(b)))

\* stringify
stringifyNullAsText(cell) ==
    IF cell.kind = "Null" THEN "NULL"
    ELSE IF cell.kind = "Integer" THEN ToString(cell.v)
    ELSE IF cell.kind = "Real" THEN RealToString(cell)
    ELSE IF cell.kind = "Text" THEN cell.text
    ELSE Base64NoPad(cell.bytes)
stringify(cell) ==
    IF cell.kind = "Null" THEN ""
    ELSE IF cell.kind = "Integer" THEN ToString(cell.v)
    ELSE IF cell.kind = "Real" THEN RealToString(cell)
    ELSE IF cell.kind = "Text" THEN cell.text
    ELSE Base64NoPad(cell.bytes)

\* the match of into_json: a cell as a JSON value
JsonNull == [json |-> "null"]
CellToJson(cell) ==
    IF cell.kind = "Null" THEN JsonNull
    ELSE IF cell.kind = "Integer" THEN [json |-> "number", v |-> cell.v]
    ELSE IF cell.kind = "Real"
        THEN [json |-> "number", int |-> cell.int, frac |-> cell.frac]
    ELSE IF cell.kind = "Text" THEN [json |-> "string", text |-> cell.text]
    ELSE [json |-> "object", base64 |-> Base64NoPad(cell.bytes)]

----------------------------------------------------------------------------
\* Result sets: libsql::Rows

\* a column without a name
NoName == "<unnamed>"

\* Rows::next, call number k: an error at call faultAt (0: never), else the
\* next row, else the end of the rows
RowsNext(res, k) ==
    IF res.faultAt = k THEN [tag |-> "Err"]
    ELSE IF k <= Len(res.rows) THEN [tag |-> "Some", row |-> res.rows[k]]
    ELSE [tag |-> "None"]

\* Row::get::<T>(idx): the cell when it exists and holds a T
RowGet(row, idx, kind) ==
    IF idx + 1 > Len(row) THEN [tag |-> "Err"]
    ELSE IF row[idx + 1].kind # kind THEN [tag |-> "Err"]
    ELSE [tag |-> "Ok", cell |-> row[idx + 1]]

\* what a renderer hands back: a value, an error value, or no return (panic)
Rendered(out) == [status |-> "ok", out |-> out]
RenderErr(e) == [status |-> "err", out |-> <<e>>]
RenderPanic == [status |-> "panic", out |-> <<>>]

----------------------------------------------------------------------------
\* Row-set renderers; an output is the sequence of the pieces appended to it

\* Row::get_value(col).unwrap() for every column of the result set
HasAllCells(res, row) == Len(row) >= Len(res.cols)

TableOpen == "<table style=\"border: 1px solid\">"
HeaderCell(name) ==
    "<th style=\"border: 1px solid\">"
        \o (IF name = NoName THEN "" ELSE name) \o "</th>"
RowOpen == "<tr style=\"border: 1px solid\">"
DataCell(cell) == "<td>" \o stringify(cell) \o "</td>"

\* the while-let loop of result_to_html_table from call k of next on
RECURSIVE HtmlRows(_, _, _)
HtmlRows(res, k, html) ==
    LET n == RowsNext(res, k)
    IN  IF n.tag = "Err" THEN RenderPanic
        ELSE IF n.tag = "None" THEN Rendered(Append(html, "</table>"))
        ELSE IF ~HasAllCells(res, n.row) THEN RenderPanic
        ELSE HtmlRows(res, k + 1,
                html \o <<RowOpen>>
                     \o [col \in 1..Len(res.cols) |-> DataCell(n.row[col])]
                     \o <<"</tr>">>)

\* result_to_html_table
result_to_html_table(res) ==
    HtmlRows(res, 1,
        <<TableOpen>> \o [col \in 1..Len(res.cols) |-> HeaderCell(res.cols[col])])

CanvasPreamble == "<script src=p5.min.js></script><script src=mappa.js></script><script>... function drawPoint(){ clear(); let point;"
CanvasClosing == "}</script>"
Marker(lat, lon, airport) ==
    "point = myMap.latLngToPixel(" \o RealToString(lat) \o ", "
        \o RealToString(lon)
        \o ");\nellipse(point.x, point.y, 10, 10);\ntext("
        \o airport.text \o ", point.x, point.y);\n"

\* the while-let loop of create_map_canvas from call k of next on
RECURSIVE CanvasRows(_, _, _)
CanvasRows(res, k, canvas) ==
    LET n == RowsNext(res, k)
    IN  IF n.tag = "Err" THEN RenderPanic
        ELSE IF n.tag = "None" THEN Rendered(Append(canvas, CanvasClosing))
        ELSE LET airport == RowGet(n.row, 0, "Text")
                 lat     == RowGet(n.row, 1, "Real")
                 lon     == RowGet(n.row, 2, "Real")
             IN  IF "Err" \in {airport.tag, lat.tag, lon.tag} THEN RenderPanic
                 ELSE CanvasRows(res, k + 1,
                         Append(canvas, Marker(lat.cell, lon.cell, airport.cell)))

\* create_map_canvas
create_map_canvas_unclosed(res) ==
    IF res.rows = <<>> /\ res.faultAt = 0 THEN Rendered(<<CanvasPreamble>>)
    ELSE CanvasRows(res, 1, <<CanvasPreamble>>)
create_map_canvas(res) == CanvasRows(res, 1, <<CanvasPreamble>>)

\* the while-let loop of into_json from call k of next on
RECURSIVE JsonRows(_, _, _)
JsonRows(res, k, rows) ==
    LET n == RowsNext(res, k)
    IN  IF n.tag = "Err" THEN RenderErr("read fault")
        ELSE IF n.tag = "None"
            THEN Rendered([columns |-> [i \in 1..Len(res.cols) |->
                                          IF res.cols[i] = NoName THEN JsonNull
                                          ELSE [json |-> "string",
                                                text |-> res.cols[i]]],
                           rows |-> rows])
        ELSE IF ~HasAllCells(res, n.row) THEN RenderPanic
        ELSE JsonRows(res, k + 1,
                Append(rows, [i \in 1..Len(res.cols) |-> CellToJson(n.row[i])]))

\* into_json
into_json(res) == JsonRows(res, 1, <<>>)

\* the result sets of serve's two queries; the store delivers the rows of a
\* table in some fixed order
RECURSIVE SetToSeq(_)
SetToSeq(S) ==
    IF S = {} THEN <<>>
    ELSE LET x == CHOOSE y \in S : TRUE IN <<x>> \o SetToSeq(S \ {x})

\* a coordinate n of the model stands for a non-integral reading n.5
CoordReal(n) == Real(n, "5")

\* SELECT * FROM counter
CounterResult(rows, faultAt) ==
    LET seq == SetToSeq(rows)
    IN  [cols |-> <<"country", "city", "value">>,
         rows |-> [i \in 1..Len(seq) |->
                     <<Text(seq[i].country), Text(seq[i].city),
                       Integer(seq[i].value)>>],
         faultAt |-> faultAt]

\* SELECT airport, lat, long FROM coordinates
CoordinatesResult(rows, faultAt) ==
    LET seq == SetToSeq(rows)
    IN  [cols |-> <<"airport", "lat", "long">>,
         rows |-> [i \in 1..Len(seq) |->
                     <<Text(seq[i].airport), CoordReal(seq[i].lat),
                       CoordReal(seq[i].long)>>],
         faultAt |-> faultAt]

\* select * from example_users
UsersResult(rows, faultAt) ==
    [cols |-> <<"email">>,
     rows |-> [i \in 1..Len(rows) |-> <<Text(rows[i])>>],
     faultAt |-> faultAt]

----------------------------------------------------------------------------
\* Connection setup

\* open_connection: the URL secret is looked up first, then the token
open_connection_url_only(e) ==
    IF "LIBSQL_CLIENT_URL" \notin e
        THEN [ok |-> FALSE, err |-> "missing LIBSQL_CLIENT_URL"]
    ELSE [ok |-> TRUE, err |-> "none"]
open_connection(e) ==
    IF "LIBSQL_CLIENT_URL" \notin e
        THEN [ok |-> FALSE, err |-> "missing LIBSQL_CLIENT_URL"]
    ELSE IF "LIBSQL_CLIENT_TOKEN" \notin e
        THEN [ok |-> FALSE, err |-> "missing LIBSQL_CLIENT_TOKEN"]
    ELSE [ok |-> TRUE, err |-> "none"]

\* outcome of one remote call as the transport reports it
Faults == {"none", "io"}
\* where the rows of a query fail to be read: nowhere, or at the first read
ReadFaults == {0, 1}

\* first error among the transport's, the missing table's and the statement's
FirstErr(fault, missing, stmt) ==
    IF fault # "none" THEN fault ELSE IF missing # "none" THEN missing ELSE stmt

----------------------------------------------------------------------------
\* serve: how it hands its result back to its caller

\* GET / : Ok(html) => Response::from_html(html)
\*         Err(e)   => Response::ok(format!("Error: {e}"))
RootResponse(result) ==
    IF result = "ok" THEN ResponseHtml(<<"page">>)
    ELSE IF result = "panic" THEN ResponseException
    ELSE ResponseOk(<<"Error: ", result>>)

\* the store calls of serve, in program order; a request's pc names the
\* call it makes next
ServeOrder == <<"schema", "seed", "incr", "coord", "qcounter", "qcoord">>
StepOf(pc) == CHOOSE i \in 1..Len(ServeOrder) : ServeOrder[i] = pc

\* serve returns `result` ("ok", an error message, or "panic" when a
\* renderer unwraps a failed row read) to the route handler or to the
\* sequential driver: `?` and bail! leave serve at the first error
ReturnSwallowed(q, result) ==
    IF result \in {"ok", "panic"} \/ q.pc = "qcoord"
    THEN [q EXCEPT !.pc = "done", !.result = result,
                   !.resp = IF q.route = "/" THEN RootResponse(result) ELSE NoResp]
    ELSE [q EXCEPT !.pc = ServeOrder[StepOf(q.pc) + 1]]
Return(q, result) ==
    [q EXCEPT !.pc = "done", !.result = result,
              !.resp = IF q.route = "/" THEN RootResponse(result) ELSE NoResp]

\* the log of a request's store calls: the statement and the store's reply
Called(q, stmt, reply) ==
    [q EXCEPT !.calls = Append(@, [stmt |-> stmt, err |-> reply])]

\* hash_query.get("email")
HasEmailAlways(email) == TRUE
HasEmail(email) == email # NoEmail

Init ==
    /\ env \in SUBSET Secrets
    /\ tables = {"example_users"}
    /\ counter = {}
    /\ coordinates = {}
    /\ users = <<>>
    /\ req = [r \in Reqs |-> IdleReq]
    /\ visits = [k \in Keys |-> 0]
    /\ visitedCoords = {}
    /\ rs = [cols |-> <<>>, rows |-> <<>>, faultAt |-> 0]
    /\ rendered = [by |-> "none", status |-> "none", out |-> <<>>]

----------------------------------------------------------------------------
\* Route handlers up to their first await

\* GET / : open the connection, read the geolocation facts, enter serve
GetRoot(r) ==
    /\ req[r].pc = "idle"
    /\ \E v \in Visits :
        LET db == open_connection(env)
            q  == [req[r] EXCEPT !.route = "/", !.airport = v.airport,
                       !.country = v.country, !.city = v.city, !.coord = v.coord]
        IN  req' = [req EXCEPT ![r] =
                IF db.ok THEN [q EXCEPT !.pc = "schema", !.conn = "open"]
                ELSE [q EXCEPT !.pc = "done", !.conn = "failed",
                               !.resp = ResponseError(<<db.err>>, 500)]]
    /\ UNCHANGED <<rs, rendered, env, tables, counter, coordinates, users, visits, visitedCoords>>

\* GET /worker-version
GetWorkerVersion(r) ==
    /\ req[r].pc = "idle"
    /\ \E bound \in BOOLEAN :
        req' = [req EXCEPT ![r] =
            [@ EXCEPT !.route = "/worker-version", !.pc = "done",
                      !.resp = IF bound THEN ResponseOk(<<"version">>)
                               ELSE ResponseException]]
    /\ UNCHANGED <<rs, rendered, env, tables, counter, coordinates, users, visits, visitedCoords>>

\* GET /locate
GetLocateRecorded(r) ==
    /\ req[r].pc = "idle"
    /\ open_connection(env).ok
    /\ \E v \in Visits :
        req' = [req EXCEPT ![r] =
            [@ EXCEPT !.route = "/locate", !.airport = v.airport,
                      !.country = v.country, !.city = v.city, !.coord = v.coord,
                      !.pc = "schema", !.conn = "open"]]
    /\ UNCHANGED <<rs, rendered, env, tables, counter, coordinates, users, visits, visitedCoords>>
GetLocate(r) ==
    /\ req[r].pc = "idle"
    /\ \E v \in Visits :
        req' = [req EXCEPT ![r] =
            [@ EXCEPT !.route = "/locate", !.airport = v.airport,
                      !.country = v.country, !.city = v.city, !.coord = v.coord,
                      !.pc = "done",
                      !.resp = ResponseOk(<<v.airport, v.country, v.city,
                                            v.coord[1], v.coord[2]>>)]]
    /\ UNCHANGED <<rs, rendered, env, tables, counter, coordinates, users, visits, visitedCoords>>

\* GET /users : open the connection, then query
GetUsers(r) ==
    /\ req[r].pc = "idle"
    /\ LET db == open_connection(env)
           q  == [req[r] EXCEPT !.route = "/users"]
       IN  req' = [req EXCEPT ![r] =
               IF db.ok THEN [q EXCEPT !.pc = "users", !.conn = "open"]
               ELSE [q EXCEPT !.pc = "done", !.conn = "failed",
                              !.resp = ResponseError(<<db.err>>, 500)]]
    /\ UNCHANGED <<rs, rendered, env, tables, counter, coordinates, users, visits, visitedCoords>>

\* GET /add-user : the email parameter is checked before the connection
GetAddUser(r) ==
    /\ req[r].pc = "idle"
    /\ \E email \in Emails :
        LET db == open_connection(env)
            q  == [req[r] EXCEPT !.route = "/add-user", !.email = email]
        IN  req' = [req EXCEPT ![r] =
                IF ~HasEmail(email)
                    THEN [q EXCEPT !.pc = "done",
                                   !.resp = ResponseError(<<"No email">>, 400)]
                ELSE IF db.ok THEN [q EXCEPT !.pc = "adduser", !.conn = "open"]
                ELSE [q EXCEPT !.pc = "done", !.conn = "failed",
                               !.resp = ResponseError(<<db.err>>, 500)]]
    /\ UNCHANGED <<rs, rendered, env, tables, counter, coordinates, users, visits, visitedCoords>>

----------------------------------------------------------------------------
\* serve, one action per store call

\* db.execute_batch("BEGIN; CREATE TABLE IF NOT EXISTS ...; END;")
Schema(r) ==
    /\ req[r].pc = "schema"
    /\ \E fault \in Faults :
        LET q == Called(req[r], "schema", fault)
        IN  IF fault # "none"
            THEN /\ req' = [req EXCEPT ![r] = Return(q, fault)]
                 /\ UNCHANGED tables
            ELSE /\ tables' = CreateTables(tables)
                 /\ req' = [req EXCEPT ![r] = [q EXCEPT !.pc = "seed"]]
    /\ UNCHANGED <<rs, rendered, env, counter, coordinates, users, visits, visitedCoords>>

\* db.execute("INSERT OR IGNORE INTO counter VALUES (?, ?, 0)")
Seed(r) ==
    /\ req[r].pc = "seed"
    /\ \E fault \in Faults :
        LET ins == SeedCounter(counter, req[r].country, req[r].city)
            e   == FirstErr(fault, NoTable(tables, "counter"), ins.err)
            q   == Called(req[r], "seed", e)
        IN  IF e # "none"
            THEN /\ req' = [req EXCEPT ![r] = Return(q, e)]
                 /\ UNCHANGED counter
            ELSE /\ counter' = ins.rows
                 /\ req' = [req EXCEPT ![r] = [q EXCEPT !.pc = "incr"]]
    /\ UNCHANGED <<rs, rendered, env, tables, coordinates, users, visits, visitedCoords>>

\* db.execute("UPDATE counter SET value = value + 1 WHERE ...")
Incr(r) ==
    /\ req[r].pc = "incr"
    /\ \E fault \in Faults :
        LET e == FirstErr(fault, NoTable(tables, "counter"), "none")
            q == Called(req[r], "incr", e)
        IN  IF e # "none"
            THEN /\ req' = [req EXCEPT ![r] = Return(q, e)]
                 /\ UNCHANGED counter
            ELSE /\ counter' = IncrementCounter(counter, q.country, q.city)
                 /\ req' = [req EXCEPT ![r] = [q EXCEPT !.pc = "coord"]]
    /\ UNCHANGED <<rs, rendered, env, tables, coordinates, users, visits, visitedCoords>>

\* db.execute("INSERT OR IGNORE INTO coordinates VALUES (?, ?, ?)")
Coord(r) ==
    /\ req[r].pc = "coord"
    /\ \E fault \in Faults :
        LET ins == SeedCoordinates(coordinates, req[r].coord[1],
                                   req[r].coord[2], req[r].airport)
            e   == FirstErr(fault, NoTable(tables, "coordinates"), ins.err)
            q   == Called(req[r], "coord", e)
        IN  IF e # "none"
            THEN /\ req' = [req EXCEPT ![r] = Return(q, e)]
                 /\ UNCHANGED coordinates
            ELSE /\ coordinates' = ins.rows
                 /\ req' = [req EXCEPT ![r] = [q EXCEPT !.pc = "qcounter"]]
    /\ UNCHANGED <<rs, rendered, env, tables, counter, users, visits, visitedCoords>>

\* db.query("SELECT * FROM counter"), then result_to_html_table, whose
\* unwrap of a failed row read panics
QCounter(r) ==
    /\ req[r].pc = "qcounter"
    /\ \E fault \in Faults, faultAt \in ReadFaults :
        LET e == FirstErr(fault, NoTable(tables, "counter"), "none")
            q == Called(req[r], "qcounter", e)
            scoreboard == result_to_html_table(CounterResult(counter, faultAt))
        IN  req' = [req EXCEPT ![r] =
                IF e # "none" THEN Return(q, e)
                ELSE IF scoreboard.status = "panic" THEN Return(q, "panic")
                ELSE [q EXCEPT !.pc = "qcoord", !.scoreboard = counter]]
    /\ UNCHANGED <<rs, rendered, env, tables, counter, coordinates, users, visits, visitedCoords>>

\* db.query("SELECT airport, lat, long FROM coordinates"), then
\* create_map_canvas (same unwrap), then the page is formatted and returned
QCoord(r) ==
    /\ req[r].pc = "qcoord"
    /\ \E fault \in Faults, faultAt \in ReadFaults :
        LET e  == FirstErr(fault, NoTable(tables, "coordinates"), "none")
            q  == Called(req[r], "qcoord", e)
            canvas == create_map_canvas(CoordinatesResult(coordinates, faultAt))
            ok == e = "none" /\ canvas.status = "ok"
        IN  /\ req' = [req EXCEPT ![r] =
                  IF e # "none" THEN Return(q, e)
                  ELSE IF canvas.status = "panic" THEN Return(q, "panic")
                  ELSE Return([q EXCEPT !.canvas = coordinates], "ok")]
            /\ IF ok /\ q.route = "test"
               THEN /\ visits' = [visits EXCEPT ![<<q.country, q.city>>] = @ + 1]
                    /\ visitedCoords' = visitedCoords \cup {q.coord}
               ELSE UNCHANGED <<visits, visitedCoords>>
    /\ UNCHANGED <<rs, rendered, env, tables, counter, coordinates, users>>

----------------------------------------------------------------------------
\* The user endpoints after the connection is open

\* db.query("select * from example_users"), then into_json, which returns
\* a failed row read as an error
Users(r) ==
    /\ req[r].pc = "users"
    /\ \E fault \in Faults, faultAt \in ReadFaults :
        LET reply == FirstErr(fault, NoTable(tables, "example_users"), "none")
            q == Called(req[r], "qusers", reply)
            json == into_json(UsersResult(users, faultAt))
        IN  req' = [req EXCEPT ![r] =
                [q EXCEPT !.pc = "done",
                          !.resp = IF reply # "none"
                                       THEN ResponseError(<<reply>>, 500)
                                   ELSE IF json.status = "err"
                                       THEN ResponseError(json.out, 500)
                                   ELSE IF json.status = "panic"
                                       THEN ResponseException
                                   ELSE ResponseJson(users)]]
    /\ UNCHANGED <<rs, rendered, env, tables, counter, coordinates, users, visits, visitedCoords>>

\* db.execute("insert into example_users values (?)")
AddUser(r) ==
    /\ req[r].pc = "adduser"
    /\ \E fault \in Faults :
        LET e == FirstErr(fault, NoTable(tables, "example_users"), "none")
            q == Called(req[r], "adduser", e)
        IN  IF e # "none"
            THEN /\ req' = [req EXCEPT ![r] =
                        [q EXCEPT !.pc = "done", !.resp = ResponseError(<<e>>, 500)]]
                 /\ UNCHANGED users
            ELSE /\ users' = InsertUser(users, q.email)
                 /\ req' = [req EXCEPT ![r] =
                        [q EXCEPT !.pc = "done", !.resp = ResponseJson(<<"Added">>)]]
    /\ UNCHANGED <<rs, rendered, env, tables, counter, coordinates, visits, visitedCoords>>

----------------------------------------------------------------------------
\* tests::test_counter_updated: serve called in a loop, each result unwrapped

TotalVisits == visits[<<"PL", "Warsaw">>] + visits[<<"FI", "Helsinki">>]

\* the next iteration of `for p in payloads`: reached only if every earlier
\* call returned Ok (unwrap panics otherwise)
TestCall(r) ==
    /\ r = 1
    /\ \/ req[r].pc = "idle"
       \/ req[r].pc = "done" /\ req[r].result = "ok"
    /\ TotalVisits < MaxVisits
    /\ \E v \in Visits :
        req' = [req EXCEPT ![r] =
            [IdleReq EXCEPT !.route = "test", !.airport = v.airport,
                            !.country = v.country, !.city = v.city,
                            !.coord = v.coord, !.pc = "schema",
                            !.conn = "open"]]
    /\ UNCHANGED <<rs, rendered, env, tables, counter, coordinates, users, visits, visitedCoords>>

----------------------------------------------------------------------------
\* Specifications

\* concurrent requests to the worker
Next ==
    \E r \in Reqs :
        \/ GetRoot(r) \/ GetWorkerVersion(r) \/ GetLocate(r)
        \/ GetUsers(r) \/ GetAddUser(r)
        \/ Schema(r) \/ Seed(r) \/ Incr(r) \/ Coord(r)
        \/ QCounter(r) \/ QCoord(r)
        \/ Users(r) \/ AddUser(r)

Spec == Init /\ [][Next]_vars

\* serve calls one after another
NextSeq ==
    \E r \in Reqs :
        \/ TestCall(r)
        \/ Schema(r) \/ Seed(r) \/ Incr(r) \/ Coord(r)
        \/ QCounter(r) \/ QCoord(r)

SpecSeq == Init /\ [][NextSeq]_vars

----------------------------------------------------------------------------
\* The renderers on their own, over result sets of any content

SeqsUpTo(S, n) == UNION {[1..m -> S] : m \in 0..n}

\* columns and the rows a result set of those columns is made of
Shapes ==
    {[cols |-> <<"airport", "lat", "long">>,
      pick |-> {<<Text("waw"), Real(52, "1672"), Real(20, "9679")>>,
                <<Text("hel"), Real(60, "3183"), Real(24, "9497")>>,
                <<Text("waw"), Null, Real(20, "9679")>>,
                <<Text("hel"), Integer(0), Integer(0)>>}],
     [cols |-> <<"country", "city", "value">>,
      pick |-> {<<Text("PL"), Text("Warsaw"), Integer(3)>>,
                <<Text("FI"), Text("Helsinki"), Integer(2)>>,
                <<Text(""), Text(""), Null>>}],
     [cols |-> <<"email", NoName>>,
      pick |-> {<<Text("a@example.org"), Blob(<<77, 97, 110>>)>>,
                <<Null, Blob(<<77>>)>>}]}

ResultSets ==
    UNION {UNION {{[cols |-> sh.cols, rows |-> rows, faultAt |-> f] :
                      f \in 0..(Len(rows) + 1)} :
                  rows \in SeqsUpTo(sh.pick, MaxRows)} :
           sh \in Shapes}

InitRender ==
    /\ env = Secrets
    /\ tables = {"example_users"}
    /\ counter = {}
    /\ coordinates = {}
    /\ users = <<>>
    /\ req = [r \in Reqs |-> IdleReq]
    /\ visits = [k \in Keys |-> 0]
    /\ visitedCoords = {}
    /\ rs \in ResultSets
    /\ rendered = [by |-> "none", status |-> "none", out |-> <<>>]

Render(by, result) ==
    /\ rendered.by = "none"
    /\ rendered' = [by |-> by, status |-> result.status, out |-> result.out]
    /\ UNCHANGED <<rs, env, tables, counter, coordinates, users, req,
                   visits, visitedCoords>>

RenderHtml == Render("html", result_to_html_table(rs))
RenderCanvas == Render("canvas", create_map_canvas(rs))
RenderJson == Render("json", into_json(rs))

NextRender == RenderHtml \/ RenderCanvas \/ RenderJson

SpecRender == InitRender /\ [][NextRender]_vars

----------------------------------------------------------------------------
\* Properties

KeyOf(q) == <<q.country, q.city>>
RowsFor(rows, k) == {row \in rows : row.country = k[1] /\ row.city = k[2]}
RowsAt(rows, c) == {row \in rows : row.lat = c[1] /\ row.long = c[2]}
\* the requests that entered serve for key k
Entered(k) ==
    {r \in Reqs : req[r].route = "/" /\ req[r].conn = "open" /\ KeyOf(req[r]) = k}
\* the store accepted call number i of request r, a call named stmt
Accepted(r, i, stmt) ==
    /\ Len(req[r].calls) >= i
    /\ req[r].calls[i].stmt = stmt
    /\ req[r].calls[i].err = "none"
LastCall(q) == q.calls[Len(q.calls)]

\* C1: when every request that entered serve for a key has returned Ok,
\* however their store calls interleaved, the counter table holds exactly
\* one row for that key and its value is the number of those requests.
C1_NoLostUpdate ==
    \A k \in Keys :
        (Entered(k) # {} /\ \A r \in Entered(k) : req[r].result = "ok")
            => RowsFor(counter, k) =
                 {[country |-> k[1], city |-> k[2],
                   value |-> Cardinality(Entered(k))]}

\* two requests for one key overlapped (each one's page already shows both
\* increments) and both returned Ok
C1_Witness ==
    \E r1, r2 \in Reqs :
        /\ r1 # r2
        /\ KeyOf(req[r1]) = KeyOf(req[r2])
        /\ \A r \in {r1, r2} :
            /\ req[r].route = "/"
            /\ req[r].result = "ok"
            /\ \E row \in RowsFor(req[r].scoreboard, KeyOf(req[r])) : row.value = 2
        /\ \E row \in RowsFor(counter, KeyOf(req[r1])) : row.value = 2

\* C2: from an empty store, after any sequence of successful serve calls
\* made one after another, the counter table is exactly one row per visited
\* key holding that key's number of visits, and the coordinates table holds
\* exactly one row per visited (lat, long).
C2_SequentialCounts ==
    (req[1].pc = "idle" \/ (req[1].pc = "done" /\ req[1].result = "ok"))
        => /\ counter = {[country |-> k[1], city |-> k[2], value |-> visits[k]] :
                            k \in {kk \in Keys : visits[kk] > 0}}
           /\ {<<row.lat, row.long>> : row \in coordinates} = visitedCoords
           /\ Cardinality(coordinates) = Cardinality(visitedCoords)

\* three Warsaw visits and two Helsinki visits
C2_Witness ==
    /\ req[1].pc = "done" /\ req[1].result = "ok"
    /\ visits[<<"PL", "Warsaw">>] = 3 /\ visits[<<"FI", "Helsinki">>] = 2
    /\ counter = {[country |-> "PL", city |-> "Warsaw", value |-> 3],
                  [country |-> "FI", city |-> "Helsinki", value |-> 2]}
    /\ Cardinality(coordinates) = 2

\* C3: no request's counter seed is answered with a uniqueness fault, no key
\* ever has two counter rows, and a key that a request has seeded has
\* exactly one row.
C3_ConcurrentSeed ==
    /\ \A r \in Reqs :
        /\ \A i \in 1..Len(req[r].calls) :
              req[r].calls[i].stmt = "seed"
                  => req[r].calls[i].err # "UNIQUE constraint failed"
        /\ Accepted(r, 2, "seed")
              => Cardinality(RowsFor(counter, KeyOf(req[r]))) = 1
    /\ \A k \in Keys : Cardinality(RowsFor(counter, k)) <= 1

\* two requests seeded the same key before either incremented it
C3_Witness ==
    \E r1, r2 \in Reqs :
        /\ r1 # r2
        /\ KeyOf(req[r1]) = KeyOf(req[r2])
        /\ req[r1].pc = "incr" /\ req[r2].pc = "incr"
        /\ RowsFor(counter, KeyOf(req[r1])) =
              {[country |-> req[r1].country, city |-> req[r1].city, value |-> 0]}

\* C4: a seed step executed for a key whose row exists leaves the counter
\* table as it was: one row for the key, at the value it had.
C4_SeedIdempotent ==
    [][\A r \in Reqs :
          (/\ req[r].pc = "seed"
           /\ Accepted(r, 2, "seed")'
           /\ RowsFor(counter, KeyOf(req[r])) # {})
              => counter' = counter]_vars

\* the third visit of a key has passed its seed: the row stands at 2
C4_Witness ==
    /\ req[1].pc = "incr"
    /\ visits[KeyOf(req[1])] = 2
    /\ RowsFor(counter, KeyOf(req[1])) =
          {[country |-> req[1].country, city |-> req[1].city, value |-> 2]}

\* C5: no (lat, long) pair ever has two coordinates rows, a pair that a
\* request has inserted has exactly one row, and no coordinate insert is
\* answered with a uniqueness fault.
C5_CoordinateDedup ==
    /\ \A r \in Reqs :
        /\ \A i \in 1..Len(req[r].calls) :
              req[r].calls[i].stmt = "coord"
                  => req[r].calls[i].err # "UNIQUE constraint failed"
        /\ Accepted(r, 4, "coord")
              => Cardinality(RowsAt(coordinates, req[r].coord)) = 1
    /\ \A c \in Coords : Cardinality(RowsAt(coordinates, c)) <= 1

\* two requests with one (lat, long) and different airport labels both
\* returned Ok
C5_Witness ==
    \E r1, r2 \in Reqs :
        /\ req[r1].coord = req[r2].coord
        /\ req[r1].airport # req[r2].airport
        /\ req[r1].result = "ok" /\ req[r2].result = "ok"
        /\ Cardinality(RowsAt(coordinates, req[r1].coord)) = 1

\* C6: in every state there is at most one counter row per key and every
\* value is non-negative; in every step every row stays, at a value that is
\* not smaller, and a row that appears appears at 0.
C6_CounterInvariant ==
    [][/\ \A k \in Keys : /\ Cardinality(RowsFor(counter, k)) <= 1
                          /\ Cardinality(RowsFor(counter', k)) <= 1
       /\ \A row \in counter \cup counter' : row.value >= 0
       /\ \A row \in counter :
            \E new \in RowsFor(counter', <<row.country, row.city>>) :
                new.value >= row.value
       /\ \A new \in counter' :
            RowsFor(counter, <<new.country, new.city>>) = {}
                => new.value = 0]_vars

\* one key created and incremented, another created and left at 0 by a
\* request whose increment failed
C6_Witness ==
    /\ \E row \in counter : row.value >= 1
    /\ \E r \in Reqs :
        /\ Len(req[r].calls) = 3
        /\ req[r].result = "io"
        /\ RowsFor(counter, KeyOf(req[r])) =
              {[country |-> req[r].country, city |-> req[r].city, value |-> 0]}

\* what C7 says of one request record
C7_Ordered(q) ==
    LET n == Len(q.calls)
    IN  /\ n <= Len(ServeOrder)
        /\ \A i \in 1..n : q.calls[i].stmt = ServeOrder[i]
        /\ \A i \in 1..(n - 1) : q.calls[i].err = "none"
        /\ (n > 0 /\ LastCall(q).err # "none")
              => /\ q.pc = "done"
                 /\ q.result = LastCall(q).err

\* C7: the store calls of one serve are a prefix of schema, seed, increment,
\* coordinate, counter query, coordinates query; every call but the last
\* succeeded; after a failed call the request is over with that error as
\* the result of serve; the step of a failing schema call changes no
\* counter and no coordinates row.
C7_StepOrder ==
    [][\A r \in Reqs :
          /\ req[r].route = "/" => C7_Ordered(req[r])
          /\ req'[r].route = "/" => C7_Ordered(req'[r])
          /\ (/\ req[r].pc = "schema"
              /\ req'[r].calls # req[r].calls
              /\ ~Accepted(r, 1, "schema")')
                => /\ counter' = counter
                   /\ coordinates' = coordinates
                   /\ req'[r].calls = <<[stmt |-> "schema", err |-> "io"]>>]_vars

\* a request whose increment failed: three calls, no fourth
C7_Witness ==
    \E r \in Reqs :
        /\ req[r].route = "/"
        /\ Len(req[r].calls) = 3
        /\ LastCall(req[r]) = [stmt |-> "incr", err |-> "io"]
        /\ req[r].pc = "done"
        /\ req[r].result = "io"

\* the endpoints that open a connection to the store
DbRoutes == {"/", "/users", "/add-user"}
Configured == Secrets \subseteq env
FailedCalls(q) == {i \in 1..Len(q.calls) : q.calls[i].err # "none"}

\* C8: a request on a database-backed endpoint during which a store call
\* failed is answered with HTTP 500 carrying the message of that failure.
C8_PersistenceErrorIs500 ==
    \A r \in Reqs :
        (req[r].pc = "done" /\ req[r].route \in DbRoutes)
            => \A i \in FailedCalls(req[r]) :
                  /\ req[r].resp.status = 500
                  /\ req[r].resp.body = <<req[r].calls[i].err>>

\* C9 as claimed: with a secret missing every answered request to a
\* database-backed endpoint is answered with HTTP 500 and made no store call.
C9_MissingSecretAlways500 ==
    \A r \in Reqs :
        (~Configured /\ req[r].pc = "done" /\ req[r].route \in DbRoutes)
            => /\ req[r].resp.status = 500
               /\ req[r].calls = <<>>

\* C9: with a secret missing no request makes a store call, GET /, GET /users
\* and GET /add-user with an email parameter are answered with HTTP 500
\* naming the first missing secret, and GET /add-user without an email
\* parameter is answered with HTTP 400.
C9_MissingSecret ==
    ~Configured =>
        \A r \in Reqs :
            /\ req[r].calls = <<>>
            /\ (req[r].pc # "idle" /\ req[r].route \in DbRoutes)
                => /\ req[r].pc = "done"
                   /\ req[r].resp =
                        IF req[r].route = "/add-user" /\ req[r].email = NoEmail
                        THEN ResponseError(<<"No email">>, 400)
                        ELSE ResponseError(
                               <<IF "LIBSQL_CLIENT_URL" \in env
                                 THEN "missing LIBSQL_CLIENT_TOKEN"
                                 ELSE "missing LIBSQL_CLIENT_URL">>, 500)

\* only the token is missing and a request to GET / was answered with 500
C9_Witness ==
    /\ env = {"LIBSQL_CLIENT_URL"}
    /\ \E r \in Reqs :
        /\ req[r].route = "/"
        /\ req[r].pc = "done"
        /\ req[r].resp.status = 500
        /\ req[r].calls = <<>>

\* C10 as claimed: GET /add-user without an email parameter is answered with
\* HTTP 400 without a connection or a store call, and with an email
\* parameter it issues exactly one insert.
C10_AddUserAlwaysInserts ==
    \A r \in Reqs :
        (req[r].route = "/add-user" /\ req[r].pc = "done")
            => IF req[r].email = NoEmail
               THEN /\ req[r].resp.status = 400
                    /\ req[r].conn = "none"
                    /\ req[r].calls = <<>>
               ELSE /\ Len(req[r].calls) = 1
                    /\ req[r].calls[1].stmt = "adduser"

\* C10: GET /add-user without an email parameter is answered with HTTP 400,
\* opens no connection, makes no store call and changes no table; with an
\* email parameter and both secrets configured it issues exactly one insert,
\* which appends that email to the user table when the store accepts it.
C10_AddUser ==
    [][\A r \in Reqs :
          (req'[r].route = "/add-user" /\ req'[r].pc = "done")
              => IF req'[r].email = NoEmail
                 THEN /\ req'[r].resp = ResponseError(<<"No email">>, 400)
                      /\ req'[r].conn = "none"
                      /\ req'[r].calls = <<>>
                      /\ req[r].pc = "idle"
                            => UNCHANGED <<tables, counter, coordinates, users>>
                 ELSE Configured
                      => /\ Len(req'[r].calls) = 1
                         /\ req'[r].calls[1].stmt = "adduser"
                         /\ req[r].pc = "adduser"
                              => /\ users' = IF req'[r].calls[1].err = "none"
                                             THEN Append(users, req'[r].email)
                                             ELSE users
                                 /\ UNCHANGED <<tables, counter, coordinates>>]_vars

\* with both secrets configured one request without an email parameter was
\* answered with 400 and one with an email parameter added its email
C10_Witness ==
    /\ Configured
    /\ \E r1, r2 \in Reqs :
        /\ req[r1].route = "/add-user" /\ req[r1].email = NoEmail
        /\ req[r1].resp.status = 400
        /\ req[r2].route = "/add-user" /\ req[r2].email # NoEmail
        /\ req[r2].resp = ResponseJson(<<"Added">>)
        /\ users = <<req[r2].email>>

\* the read of some row of the result set failed before the rows ended
ReadFaultHit == rs.faultAt # 0

\* C11: a renderer whose result set fails to be read part-way through
\* returns that fault to its caller as an error value.
C11_ReadFaultReturned ==
    (rendered.by # "none" /\ ReadFaultHit) => rendered.status = "err"

\* the rows of a result set as create_map_canvas expects them
CanvasShaped(res) ==
    \A i \in 1..Len(res.rows) :
        /\ Len(res.rows[i]) >= 3
        /\ res.rows[i][1].kind = "Text"
        /\ res.rows[i][2].kind = "Real"
        /\ res.rows[i][3].kind = "Real"

\* C13: over a result set of (label, latitude, longitude) rows that is read
\* without fault the map canvas is the preamble, once, then one marker per
\* row in row order, then the closing; with no rows the preamble is
\* followed by the closing.
C13_CanvasShape ==
    rendered.by = "canvas" =>
        /\ (rs.faultAt = 0 /\ CanvasShaped(rs)) => rendered.status = "ok"
        /\ rendered.status = "ok" =>
            LET n == Len(rs.rows)
                out == rendered.out
            IN  /\ Len(out) = n + 2
                /\ out[1] = CanvasPreamble
                /\ out[n + 2] = CanvasClosing
                /\ \A i \in 2..(n + 2) : out[i] # CanvasPreamble
                /\ \A i \in 1..n :
                      out[i + 1] = Marker(rs.rows[i][2], rs.rows[i][3],
                                          rs.rows[i][1])

\* the canvas of a result set without rows
C13_Witness ==
    /\ rendered.by = "canvas"
    /\ rs.rows = <<>>
    /\ rs.faultAt = 0
    /\ rendered.status = "ok"
    /\ rendered.out = <<CanvasPreamble, CanvasClosing>>

\* C14: over a result set that is read without fault the HTML table is the
\* opening, one header cell per column in column order, then per row in
\* row order a row opening, one data cell per column in column order and a
\* row closing, then the table closing; the data cell of a Null is empty.
C14_HtmlTable ==
    (rendered.by = "html" /\ rs.faultAt = 0) =>
        LET c == Len(rs.cols)
            n == Len(rs.rows)
            out == rendered.out
            base(i) == 1 + c + (i - 1) * (c + 2)
        IN  /\ rendered.status = "ok"
            /\ Len(out) = 2 + c + n * (c + 2)
            /\ out[1] = TableOpen
            /\ \A j \in 1..c : out[1 + j] = HeaderCell(rs.cols[j])
            /\ \A i \in 1..n :
                /\ out[base(i) + 1] = RowOpen
                /\ \A j \in 1..c :
                      out[base(i) + 1 + j] =
                          IF rs.rows[i][j] = Null THEN "<td></td>"
                          ELSE DataCell(rs.rows[i][j])
                /\ out[base(i) + c + 2] = "</tr>"
            /\ out[Len(out)] = "</table>"

\* the table of two rows, one of them with a Null cell
C14_Witness ==
    /\ rendered.by = "html"
    /\ rendered.status = "ok"
    /\ rs.cols = <<"country", "city", "value">>
    /\ Len(rs.rows) = 2
    /\ \E i \in 1..2 : rs.rows[i][3] = Null
    /\ Len(rendered.out) = 2 + 3 + 2 * 5

\* C15: the map canvas renderer returns an output for every result set that
\* is read without fault, whatever its columns and cells.
C15_CanvasTotal ==
    (rendered.by = "canvas" /\ rs.faultAt = 0) => rendered.status = "ok"

\* the step is one of request r
Moves(r) == req'[r] # req[r]
ValueOf(rows, k) ==
    IF RowsFor(rows, k) = {} THEN 0
    ELSE (CHOOSE row \in RowsFor(rows, k) : TRUE).value

\* C12: a request to GET /locate makes no store call and opens no
\* connection; a request to GET /users, GET /add-user or GET /worker-version
\* makes no schema call; no step of a request to one of these four
\* endpoints changes the counter table, the coordinates table or the set of
\* tables.
C12_OnlyRootRecords ==
    [][\A r \in Reqs :
          /\ req'[r].route \in {"/locate", "/worker-version"}
                => req'[r].calls = <<>> /\ req'[r].conn = "none"
          /\ req'[r].route \in {"/users", "/add-user"}
                => \A i \in 1..Len(req'[r].calls) :
                      req'[r].calls[i].stmt \in {"qusers", "adduser"}
          /\ (Moves(r) /\ req'[r].route
                    \in {"/locate", "/worker-version", "/users", "/add-user"})
                => UNCHANGED <<counter, coordinates, tables>>]_vars

\* an email was added and the users were listed while the counter and
\* coordinates tables do not exist
C12_Witness ==
    /\ tables = {"example_users"}
    /\ \E r1, r2 \in Reqs :
        /\ req[r1].route = "/add-user"
        /\ req[r1].resp = ResponseJson(<<"Added">>)
        /\ req[r2].route = "/users"
        /\ req[r2].resp = ResponseJson(<<"a@example.org">>)

\* the requests whose increment the store accepted, per key
Incremented(k) ==
    {r \in Reqs : Accepted(r, 3, "incr") /\ KeyOf(req[r]) = k}

\* C16: in every state the value of a key is the number of requests for
\* that key whose increment step was executed, whether or not they went on
\* to succeed.
C16_IncrementsStay ==
    \A k \in Keys : ValueOf(counter, k) = Cardinality(Incremented(k))

\* a key stands at 1 by a request that failed at its coordinate insert
\* and no request for the key succeeded
C16_Witness ==
    \E r \in Reqs :
        /\ req[r].route = "/"
        /\ Len(req[r].calls) = 4
        /\ LastCall(req[r]) = [stmt |-> "coord", err |-> "io"]
        /\ req[r].resp = ResponseOk(<<"Error: ", "io">>)
        /\ ValueOf(counter, KeyOf(req[r])) = 1
        /\ \A r2 \in Reqs : req[r2].result # "ok"

\* C17: the page of every successful GET / shows the row of the request's
\* own key at a value of at least 1 and at most the number of increments
\* executed for that key so far, and shows a coordinates row for the
\* request's own (lat, long).
C17_ReadYourWrite ==
    \A r \in Reqs :
        (req[r].route = "/" /\ req[r].result = "ok")
            => /\ \E row \in RowsFor(req[r].scoreboard, KeyOf(req[r])) :
                    /\ row.value >= 1
                    /\ row.value <= Cardinality(Incremented(KeyOf(req[r])))
               /\ RowsAt(req[r].canvas, req[r].coord) # {}
               /\ req[r].resp = ResponseHtml(<<"page">>)

\* a successful page shows its key at 1 while the key stands at 2
C17_Witness ==
    \E r \in Reqs :
        /\ req[r].route = "/"
        /\ req[r].result = "ok"
        /\ ValueOf(req[r].scoreboard, KeyOf(req[r])) = 1
        /\ ValueOf(counter, KeyOf(req[r])) = 2

\* C18: a step of a serve call leaves every counter row of another key and
\* every existing coordinates row as it is, creates no counter row but the
\* one of its own key and no coordinates row but the one of its own
\* (lat, long); its accepted increment raises the value of its own key by
\* exactly 1, no other step of it changes that value, and it makes at most
\* one increment call.
C18_VisitFrame ==
    [][\A r \in Reqs :
          (Moves(r) /\ req'[r].route = "/") =>
              LET k == KeyOf(req'[r])
              IN  /\ counter \ RowsFor(counter, k) = counter' \ RowsFor(counter', k)
                  /\ coordinates \subseteq coordinates'
                  /\ \A row \in coordinates' \ coordinates :
                        <<row.lat, row.long>> = req'[r].coord
                  /\ ValueOf(counter', k) =
                        IF req[r].pc = "incr" /\ Accepted(r, 3, "incr")'
                        THEN ValueOf(counter, k) + 1
                        ELSE ValueOf(counter, k)
                  /\ Cardinality(RowsFor(counter', k)) <= 1
                  /\ Cardinality({i \in 1..Len(req'[r].calls) :
                                     req'[r].calls[i].stmt = "incr"}) <= 1]_vars

\* two keys and two coordinates, each visited once
C18_Witness ==
    /\ counter = {[country |-> "PL", city |-> "Warsaw", value |-> 1],
                  [country |-> "FI", city |-> "Helsinki", value |-> 1]}
    /\ Cardinality(coordinates) = 2
    /\ \A r \in {1, 2} : req[r].result = "ok"

\* C19: a coordinates row, once it exists, stays as it is, airport label
\* included, and stays the only row of its (lat, long).
C19_FirstLabelStays ==
    [][\A row \in coordinates :
          RowsAt(coordinates', <<row.lat, row.long>>) = {row}]_vars

\* two requests with one (lat, long) and different airport labels have
\* both had their coordinate insert accepted
C19_Witness ==
    \E r1, r2 \in Reqs :
        /\ req[r1].coord = req[r2].coord
        /\ req[r1].airport # req[r2].airport
        /\ Accepted(r1, 4, "coord") /\ Accepted(r2, 4, "coord")
        /\ RowsAt(coordinates, req[r1].coord) =
              {[lat |-> req[r1].coord[1], long |-> req[r1].coord[2],
                airport |-> req[r1].airport]}

====
